---- MODULE Spec2Model ----
(***************************************************************************)
(* Time-expanded A* (AStar) and the Conflict-Based Search node (CBSState)  *)
(* of src/starter_ass2/search/algorithms.py.                               *)
(*                                                                         *)
(* Python values: None is the empty tuple and a present value v is <<v>>,  *)
(* so that an optional field always holds a sequence.  A cell is <<x, y>>. *)
(* A State object is the record [x, y, g, cost, parent].                   *)
(***************************************************************************)
EXTENDS Integers, Sequences, FiniteSets, TLC

VARIABLES
    map,            \* the gridded map handed to AStar / CBSState (State.map_width is map.width)
    order,          \* the order in which the map generates the five actions
    start,          \* AStar.start
    goal,           \* AStar.goal
    constraints,    \* the constraints argument of AStar.search: cell -> set of timesteps
    OPEN,           \* AStar.OPEN, the heapq list
    CLOSED,         \* AStar.CLOSED, the dict hash -> State
    pc,             \* where AStar.search is: "ready", "loop", "returned"
    result,         \* what AStar.search returned: <<cost, path>> once pc = "returned"
    starts,         \* the list of start States shared by every CBSState (agent i at i + 1)
    goals,          \* the list of goal States shared by every CBSState
    nodes,          \* the CBSState objects constructed so far
    mem,            \* the dict and set objects the CBSStates' _constraints refer to
    last            \* the last successors() or CBS.search call and what it returned

astarVars == <<start, goal, constraints, OPEN, CLOSED, pc, result>>
cbsVars == <<starts, goals, nodes, mem, last>>
vars == <<map, order, astarVars, cbsVars>>

None == <<>>
Some(v) == <<v>>

----------------------------------------------------------------------------
(* Bounds of the model. *)

\* time horizon: the search loop is followed while the popped state has g < MaxG
MaxG == 5
\* largest forbidden timestep of a constraint mapping given to a single search
MaxT == 2
\* number of (cell, timestep) pairs in a constraint mapping given to a single search
MaxConstraints == 2
\* number of CBSState objects constructed
MaxNodes == 5

----------------------------------------------------------------------------
(* The maps and the inputs. *)

Line3 == [width |-> 3, height |-> 1, blocked |-> {}]
Wall3 == [width |-> 3, height |-> 1, blocked |-> {<<1, 0>>}]
Square == [width |-> 2, height |-> 2, blocked |-> {}]
Tee == [width |-> 3, height |-> 2, blocked |-> {<<0, 1>>, <<2, 1>>}]

Maps == {Line3, Wall3, Square, Tee}

Cells(m) == {c \in (0 .. m.width - 1) \X (0 .. m.height - 1) : c \notin m.blocked}

\* the five actions of the successor generator, in the two orders considered
MovesFirst == << <<1, 0>>, <<-1, 0>>, <<0, 1>>, <<0, -1>>, <<0, 0>> >>
WaitFirst == << <<0, 0>>, <<0, -1>>, <<0, 1>>, <<-1, 0>>, <<1, 0>> >>
Orders == {MovesFirst, WaitFirst}

\* a constraint mapping from a set of (cell, timestep) pairs
ConstraintsOf(pairs) ==
    [c \in {p[1] : p \in pairs} |-> {p[2] : p \in {q \in pairs : q[1] = c}}]

ConstraintSets(m) ==
    {ps \in SUBSET (Cells(m) \X (0 .. MaxT)) : Cardinality(ps) <= MaxConstraints}

Abs(n) == IF n < 0 THEN -n ELSE n

----------------------------------------------------------------------------
(* class State *)

\* State.__init__
State(x, y) == [x |-> x, y |-> y, g |-> 0, cost |-> 0, parent |-> None]

StateLtReversed(a, b) == a.cost > b.cost
\* State.__lt__
StateLt(a, b) == a.cost < b.cost

\* State.__hash__: the key of the tuple (y * map_width + x, g)
StateHash(s) == <<s.y * map.width + s.x, s.g>>

\* State.__eq__
StateEq(a, b) == a.x = b.x /\ a.y = b.y /\ a.g = b.g

\* State.is_goal
IsGoal(s, g) == s.x = g.x /\ s.y = g.y

\* State.get_heuristic
GetHeuristic(s, target) == Abs(s.x - target.x) + Abs(s.y - target.y)

----------------------------------------------------------------------------
(* heapq, as AStar.search uses it on OPEN (positions are 0-based as in heapq) *)

RECURSIVE SiftDown(_, _, _, _)
SiftDown(heap, newitem, startpos, pos) ==
    IF pos > startpos /\ StateLt(newitem, heap[((pos - 1) \div 2) + 1])
    THEN SiftDown([heap EXCEPT ![pos + 1] = heap[((pos - 1) \div 2) + 1]],
                  newitem, startpos, (pos - 1) \div 2)
    ELSE [heap EXCEPT ![pos + 1] = newitem]

RECURSIVE SiftUp(_, _, _)
SiftUp(heap, newitem, pos) ==
    LET endpos == Len(heap)
        left == 2 * pos + 1
        right == left + 1
        childpos == IF right < endpos /\ ~StateLt(heap[left + 1], heap[right + 1])
                    THEN right ELSE left
    IN IF left < endpos
       THEN SiftUp([heap EXCEPT ![pos + 1] = heap[childpos + 1]], newitem, childpos)
       ELSE SiftDown(heap, newitem, 0, pos)

HeapPush(heap, item) == SiftDown(Append(heap, item), item, 0, Len(heap))

\* the heap after heappop; the item popped is heap[1]
HeapPop(heap) ==
    LET lastelt == heap[Len(heap)]
        rest == SubSeq(heap, 1, Len(heap) - 1)
    IN IF rest = <<>> THEN rest ELSE SiftUp(rest, lastelt, 0)

----------------------------------------------------------------------------
(* The map's successor generator *)

IsForbidden(cons, cell, t) == cell \in DOMAIN cons /\ t \in cons[cell]

InBounds(m, cell) ==
    /\ cell[1] >= 0 /\ cell[1] < m.width
    /\ cell[2] >= 0 /\ cell[2] < m.height
    /\ cell \notin m.blocked

RECURSIVE MapSuccessorsFrom(_, _, _, _, _)
MapSuccessorsFrom(m, ord, node, cons, i) ==
    IF i > Len(ord) THEN <<>>
    ELSE LET cell == <<node.x + ord[i][1], node.y + ord[i][2]>>
             child == [State(cell[1], cell[2]) EXCEPT !.g = node.g + 1]
             rest == MapSuccessorsFrom(m, ord, node, cons, i + 1)
         IN IF InBounds(m, cell) /\ ~IsForbidden(cons, cell, node.g + 1)
            THEN <<child>> \o rest
            ELSE rest

\* map.successors(node, constraints)
MapSuccessors(m, ord, node, cons) == MapSuccessorsFrom(m, ord, node, cons, 1)

----------------------------------------------------------------------------
(* class AStar *)

\* AStar.compute_cost
ComputeCost(s, gl) == [s EXCEPT !.cost = s.g + GetHeuristic(s, gl)]

RECURSIVE RecoverPathFrom(_, _)
RecoverPathFrom(node, path) ==
    IF node.parent # None
    THEN RecoverPathFrom(node.parent[1], Append(path, node))
    ELSE Append(path, node)

Reverse(s) == [i \in 1 .. Len(s) |-> s[Len(s) + 1 - i]]

\* the path as collected, goal first
RecoverPathUnreversed(node) == RecoverPathFrom(node, <<>>)

\* AStar._recover_path
RecoverPath(node) == Reverse(RecoverPathFrom(node, <<>>))

\* the body of "for child in children" for one child: search state [open, closed]
AdmitChild(st, node, child0, gl) ==
    LET hash_value == StateHash(child0)
        child == [ComputeCost(child0, gl) EXCEPT !.parent = Some(node)]
        st1 == IF hash_value \notin DOMAIN st.closed
               THEN [open |-> HeapPush(st.open, child),
                     closed |-> (hash_value :> child) @@ st.closed]
               ELSE st
    IN IF hash_value \in DOMAIN st1.closed /\ st1.closed[hash_value].g > child.g
       THEN [open |-> HeapPush(st1.open, child),
             closed |-> (hash_value :> child) @@ st1.closed]
       ELSE st1

RECURSIVE AdmitChildren(_, _, _, _, _)
AdmitChildren(st, node, children, gl, i) ==
    IF i > Len(children) THEN st
    ELSE AdmitChildren(AdmitChild(st, node, children[i], gl), node, children, gl, i + 1)

\* AStar.search up to the while loop: the search state [open, closed]
SearchBegin(st, gl) ==
    LET s == ComputeCost(st, gl)
    IN [open |-> HeapPush(<<>>, s), closed |-> (StateHash(s) :> s)]

\* one iteration of the while loop that does not return: pop and expand
SearchExpand(st, m, ord, gl, cons) ==
    LET node == st.open[1]
        popped == [st EXCEPT !.open = HeapPop(st.open)]
    IN AdmitChildren(popped, node, MapSuccessors(m, ord, node, cons), gl, 1)

\* the while loop run until it returns: <<cost, path>> wrapped as a present value,
\* or None when the loop comes to expand a state at the time horizon
RECURSIVE SearchLoop(_, _, _, _, _)
SearchLoop(st, m, ord, gl, cons) ==
    IF Len(st.open) = 0 THEN Some(<<-1, None>>)
    ELSE IF IsGoal(st.open[1], gl)
         THEN Some(<<st.open[1].g, Some(RecoverPath(st.open[1]))>>)
         ELSE IF st.open[1].g >= MaxG THEN None
              ELSE SearchLoop(SearchExpand(st, m, ord, gl, cons), m, ord, gl, cons)

\* AStar.search(start, goal, constraints) on the map m
Search(s, gl, cons, m, ord) == SearchLoop(SearchBegin(s, gl), m, ord, gl, cons)

NoPath == Some(<<-1, None>>)

----------------------------------------------------------------------------
(* The objects behind CBSState._constraints: mem.outer[r] is the dict
   agent -> id of its inner dict, mem.inner[d] the dict cell -> id of its set,
   mem.sets[s] the set of forbidden timesteps. *)

EmptyHeap == [outer |-> <<>>, inner |-> <<>>, sets |-> <<>>]

Agents(k) == 0 .. k - 1

\* the constraints of agent i behind reference ref, as cell -> set of timesteps
AgentConstraints(h, ref, i) ==
    LET d == h.inner[h.outer[ref][i]]
    IN [c \in DOMAIN d |-> h.sets[d[c]]]

\* the whole mapping behind reference ref: agent -> cell -> set of timesteps
ConstraintsValue(h, ref) ==
    [i \in DOMAIN h.outer[ref] |-> AgentConstraints(h, ref, i)]

RECURSIVE CopyDict(_, _, _, _)
CopyDict(h, d, left, new) ==
    IF left = {} THEN [heap |-> h, dict |-> new]
    ELSE LET c == CHOOSE c \in left : TRUE
             h1 == [h EXCEPT !.sets = Append(@, h.sets[d[c]])]
         IN CopyDict(h1, d, left \ {c}, (c :> Len(h1.sets)) @@ new)

RECURSIVE CopyAgents(_, _, _, _, _)
CopyAgents(h, src, i, k, new) ==
    IF i = k THEN [heap |-> h, outer |-> new]
    ELSE LET d == h.inner[src[i]]
             r == CopyDict(h, d, DOMAIN d, <<>>)
             h1 == [r.heap EXCEPT !.inner = Append(@, r.dict)]
         IN CopyAgents(h1, src, i + 1, k, (i :> Len(h1.inner)) @@ new)

\* a new outer dict that holds the same inner dicts
ShallowCopy(h, ref) ==
    [heap |-> [h EXCEPT !.outer = Append(@, h.outer[ref])], ref |-> Len(h.outer) + 1]
\* copy.deepcopy(self._constraints): new dicts and new sets all the way down
DeepCopy(h, ref) ==
    LET src == h.outer[ref]
        r == CopyAgents(h, src, 0, Cardinality(DOMAIN src), <<>>)
        h1 == [r.heap EXCEPT !.outer = Append(@, r.outer)]
    IN [heap |-> h1, ref |-> Len(h1.outer)]

----------------------------------------------------------------------------
(* class CBSState: the record [cost, constraints, paths, calls, parent];
   constraints is a reference into the heap, paths is the dict agent -> path,
   calls counts the compute_cost calls and parent is the node whose successors()
   constructed this one (0 for the root): the last two are kept for the claims. *)

\* CBSState.__init__
NewCBSState(h, k, parent) ==
    LET base == Len(h.inner)
        h1 == [h EXCEPT !.inner = @ \o [j \in 1 .. k |-> <<>>],
                        !.outer = Append(@, [i \in Agents(k) |-> base + i + 1])]
    IN [heap |-> h1,
        node |-> [cost |-> 0, constraints |-> Len(h1.outer), paths |-> <<>>,
                  calls |-> 0, parent |-> parent]]

SetConstraintNoAdd(h, ref, conflict_state, conflict_time, agent) ==
    LET d == h.outer[ref][agent]
        cell == <<conflict_state.x, conflict_state.y>>
    IN IF cell \notin DOMAIN h.inner[d]
       THEN [h EXCEPT !.sets = Append(@, {}),
                      !.inner[d] = (cell :> (Len(h.sets) + 1)) @@ @]
       ELSE [h EXCEPT !.sets[h.inner[d][cell]] = @ \cup {conflict_time}]
\* CBSState.set_constraint
SetConstraint(h, ref, conflict_state, conflict_time, agent) ==
    LET d == h.outer[ref][agent]
        cell == <<conflict_state.x, conflict_state.y>>
        h1 == IF cell \notin DOMAIN h.inner[d]
              THEN [h EXCEPT !.sets = Append(@, {}),
                             !.inner[d] = (cell :> (Len(h.sets) + 1)) @@ @]
              ELSE h
    IN [h1 EXCEPT !.sets[h1.inner[d][cell]] = @ \cup {conflict_time}]

\* the searches of compute_cost: agent -> what astar.search returned
AgentSearches(node, h, sts, gls, m, ord) ==
    [i \in Agents(Len(sts)) |->
        Search(sts[i + 1], gls[i + 1], AgentConstraints(h, node.constraints, i), m, ord)]

RECURSIVE SumCosts(_, _, _)
SumCosts(searches, i, k) ==
    IF i = k THEN 0 ELSE searches[i][1][1] + SumCosts(searches, i + 1, k)

\* CBSState.compute_cost, given what the searches returned
ComputeCostOf(node, searches, k) ==
    [node EXCEPT !.paths = [i \in Agents(k) |-> searches[i][1][2]],
                 !.cost = @ + SumCosts(searches, 0, k),
                 !.calls = @ + 1]

\* membership that compares the column only
InStepSetSameColumn(step_set, cur) == \E s \in step_set : s.x = cur.x

\* current_state in step_set
InStepSet(step_set, cur) ==
    \E s \in step_set : StateHash(s) = StateHash(cur) /\ StateEq(s, cur)

\* the for loop of is_solution at time_step t, from agent i on
RECURSIVE StepAgents(_, _, _, _, _)
StepAgents(paths, k, t, i, acc) ==
    IF i = k THEN acc
    ELSE IF t < Len(paths[i][1])
         THEN LET cur == paths[i][1][t + 1]
              IN IF InStepSet(acc.step_set, cur)
                 THEN StepAgents(paths, k, t, i + 1,
                                 [acc EXCEPT !.conflict = Some(<<cur, cur.g>>),
                                             !.valid = FALSE])
                 ELSE StepAgents(paths, k, t, i + 1,
                                 [acc EXCEPT !.step_set = @ \cup {cur}])
         ELSE StepAgents(paths, k, t, i + 1, [acc EXCEPT !.finished = @ + 1])

\* the while loop of is_solution from time_step t on
RECURSIVE StepTimes(_, _, _, _)
StepTimes(paths, k, t, acc) ==
    IF acc.finished < k
    THEN StepTimes(paths, k, t + 1,
                   StepAgents(paths, k, t, 0, [acc EXCEPT !.step_set = {}, !.finished = 0]))
    ELSE acc

\* CBSState.is_solution: [raised, valid, conflict]; self._paths[i] raises KeyError
\* before compute_cost and len(None) raises TypeError for an agent without a path
IsSolution(paths, k) ==
    IF \E i \in Agents(k) : i \notin DOMAIN paths
    THEN [raised |-> "KeyError", valid |-> TRUE, conflict |-> None]
    ELSE IF \E i \in Agents(k) : paths[i] = None
         THEN [raised |-> "TypeError", valid |-> TRUE, conflict |-> None]
         ELSE LET acc == StepTimes(paths, k, 0,
                                   [step_set |-> {}, finished |-> 0,
                                    valid |-> TRUE, conflict |-> None])
              IN [raised |-> "", valid |-> acc.valid, conflict |-> acc.conflict]

\* the agents successors() finds at the conflict state at the conflict time
RECURSIVE ConflictingAgents(_, _, _, _, _)
ConflictingAgents(paths, k, conflict_state, conflict_time, i) ==
    IF i = k THEN <<>>
    ELSE LET rest == ConflictingAgents(paths, k, conflict_state, conflict_time, i + 1)
         IN IF /\ conflict_time < Len(paths[i][1])
               /\ StateEq(paths[i][1][conflict_time + 1], conflict_state)
            THEN <<i>> \o rest
            ELSE rest

\* one child of successors(): CBSState(...), the deep copy, set_constraint
NewChild(h, k, parent, ref, conflict_state, conflict_time, agent) ==
    LET made == NewCBSState(h, k, parent)
        copied == DeepCopy(made.heap, ref)
    IN [heap |-> SetConstraint(copied.heap, copied.ref, conflict_state, conflict_time, agent),
        node |-> [made.node EXCEPT !.constraints = copied.ref]]

NoCall ==
    [op |-> "", node |-> 0, raised |-> "", valid |-> TRUE, conflict |-> None,
     agents |-> <<>>, children |-> <<>>, branch |-> "", returned |-> None]

----------------------------------------------------------------------------
(* AStar.search as a state machine: one search on a fresh AStar object *)

Init ==
    /\ map \in Maps
    /\ order \in Orders
    /\ \E s \in Cells(map), g \in Cells(map) :
          /\ start = State(s[1], s[2])
          /\ goal = State(g[1], g[2])
    /\ \E ps \in ConstraintSets(map) : constraints = ConstraintsOf(ps)
    /\ OPEN = <<>>
    /\ CLOSED = <<>>
    /\ pc = "ready"
    /\ result = None
    /\ starts = <<>>
    /\ goals = <<>>
    /\ nodes = <<>>
    /\ mem = EmptyHeap
    /\ last = NoCall

\* lines 315-324
Begin ==
    /\ pc = "ready"
    /\ LET st == SearchBegin(start, goal)
       IN /\ OPEN' = st.open
          /\ CLOSED' = st.closed
          /\ start' = ComputeCost(start, goal)
    /\ pc' = "loop"
    /\ UNCHANGED <<map, order, goal, constraints, result, cbsVars>>

\* lines 326-329: the popped node is at the goal cell
ReturnPath ==
    /\ pc = "loop"
    /\ Len(OPEN) > 0
    /\ IsGoal(OPEN[1], goal)
    /\ OPEN' = HeapPop(OPEN)
    /\ result' = Some(<<OPEN[1].g, Some(RecoverPath(OPEN[1]))>>)
    /\ pc' = "returned"
    /\ UNCHANGED <<map, order, start, goal, constraints, CLOSED, cbsVars>>

\* lines 326-347: the popped node is expanded
Expand ==
    /\ pc = "loop"
    /\ Len(OPEN) > 0
    /\ ~IsGoal(OPEN[1], goal)
    /\ OPEN[1].g < MaxG
    /\ LET st == SearchExpand([open |-> OPEN, closed |-> CLOSED],
                              map, order, goal, constraints)
       IN /\ OPEN' = st.open
          /\ CLOSED' = st.closed
    /\ UNCHANGED <<map, order, start, goal, constraints, pc, result, cbsVars>>

\* line 348: OPEN is empty
ReturnNoPath ==
    /\ pc = "loop"
    /\ Len(OPEN) = 0
    /\ result' = Some(<<-1, None>>)
    /\ pc' = "returned"
    /\ UNCHANGED <<map, order, start, goal, constraints, OPEN, CLOSED, cbsVars>>

Next == Begin \/ ReturnPath \/ Expand \/ ReturnNoPath

Spec == Init /\ [][Next]_vars

----------------------------------------------------------------------------
(* CBSState and CBS as a state machine: the root CBSState of an instance has
   been constructed, and compute_cost, is_solution and successors are called
   on the CBSStates constructed so far, and CBS.search on the root. *)

\* the maps and numbers of agents of the instances
InstanceShapes == {<<Line3, 3>>, <<Tee, 2>>}

CellSeqs(m, k) == [1 .. k -> Cells(m)]

\* the start cells: two agents start anywhere, also on the same cell; three agents
\* start on three different cells
StartSeqs(m, k) ==
    {ss \in CellSeqs(m, k) : k <= 2 \/ \A i, j \in 1 .. k : ss[i] = ss[j] => i = j}

InitCBS ==
    /\ order \in Orders
    /\ \E shape \in InstanceShapes :
          /\ map = shape[1]
          /\ \E ss \in StartSeqs(shape[1], shape[2]), gs \in CellSeqs(shape[1], shape[2]) :
                /\ starts = [i \in 1 .. shape[2] |-> State(ss[i][1], ss[i][2])]
                /\ goals = [i \in 1 .. shape[2] |-> State(gs[i][1], gs[i][2])]
          /\ LET made == NewCBSState(EmptyHeap, shape[2], 0)
             IN /\ nodes = <<made.node>>
                /\ mem = made.heap
    /\ last = NoCall
    /\ start = State(0, 0)
    /\ goal = State(0, 0)
    /\ constraints = <<>>
    /\ OPEN = <<>>
    /\ CLOSED = <<>>
    /\ pc = "idle"
    /\ result = None

NumAgents == Len(starts)

\* n.compute_cost() on a CBSState that has no paths yet: lines 140-155; the call
\* returns when every search of it returns
ComputeCostCall(n) ==
    /\ nodes[n].calls = 0
    /\ LET searches == AgentSearches(nodes[n], mem, starts, goals, map, order)
       IN /\ \A i \in Agents(NumAgents) : searches[i] # None
          /\ nodes' = [nodes EXCEPT ![n] = ComputeCostOf(@, searches, NumAgents)]
    /\ starts' = [i \in 1 .. NumAgents |-> ComputeCost(starts[i], goals[i])]
    /\ UNCHANGED <<map, order, astarVars, goals, mem, last>>

\* what n.successors() does, lines 194-230: [nodes, mem, last] after the call
SuccessorsOf(n) ==
    LET r == IsSolution(nodes[n].paths, NumAgents)
        called == [NoCall EXCEPT !.op = "successors", !.node = n]
        same == [nodes |-> nodes, mem |-> mem]
    IN IF r.raised # ""
       THEN same @@ [last |-> [called EXCEPT !.raised = r.raised]]
       ELSE IF r.conflict # None /\ r.valid = FALSE
            THEN LET conflict_state == r.conflict[1][1]
                     conflict_time == r.conflict[1][2]
                     agents == ConflictingAgents(nodes[n].paths, NumAgents,
                                                 conflict_state, conflict_time, 0)
                     found == [called EXCEPT !.valid = r.valid, !.conflict = r.conflict,
                                             !.agents = agents]
                 IN IF Len(agents) >= 2
                    THEN LET c1 == NewChild(mem, NumAgents, n, nodes[n].constraints,
                                            conflict_state, conflict_time, agents[1])
                             c2 == NewChild(c1.heap, NumAgents, n, nodes[n].constraints,
                                            conflict_state, conflict_time, agents[2])
                         IN [nodes |-> nodes \o <<c1.node, c2.node>>,
                             mem |-> c2.heap,
                             last |-> [found EXCEPT
                                          !.children = <<Len(nodes) + 1, Len(nodes) + 2>>,
                                          !.branch = "two"]]
                    ELSE same @@ [last |-> [found EXCEPT !.branch = "error"]]
            ELSE same @@ [last |-> [called EXCEPT !.valid = r.valid,
                                                  !.conflict = r.conflict,
                                                  !.branch = "none"]]

\* n.successors(), on a CBSState that has not been expanded yet
Successors(n) ==
    /\ \A c \in 1 .. Len(nodes) : nodes[c].parent # n
    /\ LET after == SuccessorsOf(n)
       IN /\ Len(after.nodes) <= MaxNodes
          /\ nodes' = after.nodes
          /\ mem' = after.mem
          /\ last' = after.last
    /\ UNCHANGED <<map, order, astarVars, starts, goals>>

\* CBS().search(start) with start the CBSState just constructed: line 278
CBSSearch ==
    /\ Len(nodes) = 1 /\ nodes[1].calls = 0 /\ last = NoCall
    /\ last' = [NoCall EXCEPT !.op = "search", !.node = 1, !.returned = Some(<<None, None>>)]
    /\ UNCHANGED <<map, order, astarVars, starts, goals, nodes, mem>>

NextCBS ==
    \/ \E n \in 1 .. Len(nodes) : ComputeCostCall(n)
    \/ \E n \in 1 .. Len(nodes) : Successors(n)
    \/ CBSSearch

SpecCBS == InitCBS /\ [][NextCBS]_vars

----------------------------------------------------------------------------
(* What the single-agent claims are stated over *)

Returned == pc = "returned"
ReturnedCost == result[1][1]
ReturnedAPath == Returned /\ result[1][2] # None
ReturnedPath == result[1][2][1]
CellOf(s) == <<s.x, s.y>>

Adjacent(c, d) == Abs(c[1] - d[1]) + Abs(c[2] - d[2]) <= 1

\* one more unit-cost action (a cardinal move or a wait) arriving at time t
StepSet(m, cons, before, t) ==
    {c \in Cells(m) : ~IsForbidden(cons, c, t) /\ \E d \in before : Adjacent(c, d)}

\* the cells an agent can be at at time t on a walk of t unit-cost actions from
\* cell s that is never at a forbidden (cell, time); now is the set at time u
RECURSIVE ReachFrom(_, _, _, _, _)
ReachFrom(m, cons, now, u, t) ==
    IF u = t THEN now ELSE ReachFrom(m, cons, StepSet(m, cons, now, u + 1), u + 1, t)

ReachSet(m, s, cons, t) ==
    ReachFrom(m, cons, IF IsForbidden(cons, s, 0) THEN {} ELSE {s}, 0, t)

ArrivalTimes == {t \in 0 .. MaxG : CellOf(goal) \in ReachSet(map, CellOf(start), constraints, t)}
MinCost == CHOOSE t \in ArrivalTimes : \A u \in ArrivalTimes : t <= u

\* the cells connected to the start by free cells
RECURSIVE Component(_, _)
Component(m, seen) ==
    LET more == {c \in Cells(m) : \E d \in seen : Adjacent(c, d)}
    IN IF more \subseteq seen THEN seen ELSE Component(m, seen \cup more)

GoalReachable == CellOf(goal) \in Component(map, {CellOf(start)})

----------------------------------------------------------------------------
(* C1: when AStar.search returns a path, no state of the path, the first at
   g = 0 and the last at the goal cell included, is at a cell at a timestep
   that the constraint mapping forbids for that cell. *)
C1_ConstraintRespected ==
    ReturnedAPath =>
        \A i \in 1 .. Len(ReturnedPath) :
            ~IsForbidden(constraints, CellOf(ReturnedPath[i]), ReturnedPath[i].g)

\* what the code does keep: every state of the path but the start state, which
\* line 323 pushes without looking at the constraints, is at a permitted (cell, g)
PathRespectsConstraintsAfterStart ==
    ReturnedAPath =>
        \A i \in 2 .. Len(ReturnedPath) :
            ~IsForbidden(constraints, CellOf(ReturnedPath[i]), ReturnedPath[i].g)

(* C2: when a constraint-respecting path from start to the goal cell exists,
   the cost AStar.search returns is the least number of unit-cost actions of
   such a path; on a map without blocked cells and with no constraints that is
   the Manhattan distance between start and goal. *)
C2_CostIsMinimal ==
    (Returned /\ ArrivalTimes # {}) =>
        /\ ReturnedCost = MinCost
        /\ (map.blocked = {} /\ DOMAIN constraints = {})
              => ReturnedCost = GetHeuristic(start, goal)

\* a returned path that the constraints made longer than the Manhattan distance
C2_Witness ==
    /\ ReturnedAPath
    /\ ArrivalTimes # {}
    /\ ReturnedCost = MinCost
    /\ ReturnedCost > GetHeuristic(start, goal)
    /\ \E i \in 2 .. Len(ReturnedPath) : CellOf(ReturnedPath[i]) = CellOf(ReturnedPath[i - 1])

\* the loop is about to pop a state at the time horizon that is not at the goal cell:
\* the search has not returned and goes on past what the model follows
AtHorizon ==
    pc = "loop" /\ Len(OPEN) > 0 /\ ~IsGoal(OPEN[1], goal) /\ OPEN[1].g >= MaxG

(* C10: on every finite map, for every start, goal and finite constraint
   mapping, AStar.search returns, with NoPath when the goal cell cannot be
   reached because OPEN is then exhausted: the loop never comes to expand a
   state as deep as the time horizon MaxG. *)
C10_SearchReturns == ~AtHorizon

\* the search runs into the time horizon only when the goal cell is walled off
HorizonOnlyWhenWalledOff == AtHorizon => ~GoalReachable

\* with no constraints, a search for a walled-off goal never finds OPEN empty
WalledOffNeverExhausts ==
    (~GoalReachable /\ DOMAIN constraints = {}) => ~(Returned /\ ReturnedCost = -1)

\* while the search runs past the last forbidden timestep, the deepest state
\* reached is still in OPEN: the wait successor keeps the queue from emptying
DeepestIsOpen ==
    (pc = "loop" /\ \E k \in DOMAIN CLOSED : k[2] > MaxT) =>
        \E i \in 1 .. Len(OPEN) : \A k \in DOMAIN CLOSED : k[2] <= OPEN[i].g

----------------------------------------------------------------------------
(* What the claims about CBSState and CBS are stated over *)

\* compute_cost has run on node n / and gave every agent a path
Computed(n) == nodes[n].calls = 1
HasAllPaths(ps, k) == \A i \in Agents(k) : i \in DOMAIN ps /\ ps[i] # None

\* agents i and j both have a path entry at index t, at the same (x, y)
SameCellAt(ps, i, j, t) ==
    /\ t < Len(ps[i][1]) /\ t < Len(ps[j][1])
    /\ CellOf(ps[i][1][t + 1]) = CellOf(ps[j][1][t + 1])

ConflictAt(ps, k, t) == \E i, j \in Agents(k) : i # j /\ SameCellAt(ps, i, j, t)

\* the timesteps of the joint plan ps that hold a vertex conflict
ConflictTimes(ps, k) == {t \in 0 .. MaxG : ConflictAt(ps, k, t)}
HasConflict(ps, k) == ConflictTimes(ps, k) # {}
FirstConflictTime(ps, k) ==
    CHOOSE t \in ConflictTimes(ps, k) : \A u \in ConflictTimes(ps, k) : t <= u

\* the constraint mapping of node n
NodeConstraints(n) == ConstraintsValue(mem, nodes[n].constraints)

\* the mapping val with timestep t forbidden at cell for agent a
PlusConstraint(val, a, cell, t) ==
    [i \in DOMAIN val |->
        IF i = a
        THEN [c \in DOMAIN val[i] \cup {cell} |->
                 IF c = cell
                 THEN (IF c \in DOMAIN val[i] THEN val[i][c] ELSE {}) \cup {t}
                 ELSE val[i][c]]
        ELSE val[i]]

\* every (cell, timestep) that small forbids is forbidden by big, per agent
ConstraintsWithin(small, big) ==
    \A i \in DOMAIN small : \A c \in DOMAIN small[i] :
        c \in DOMAIN big[i] /\ small[i][c] \subseteq big[i][c]

\* successors() was the last call, made after compute_cost on a node whose
\* agents all have a path (the KeyError is that of a call before compute_cost)
LastPaths == nodes[last.node].paths
SuccessorsReturned ==
    /\ last.op = "successors"
    /\ last.raised # "KeyError"
    /\ HasAllPaths(LastPaths, NumAgents)

(* C3: for a solved MAPF instance the paths CBS.search returns are
   conflict-free: when the root's joint plan is itself free of conflicts, so
   that the instance has a solution, the search has returned one path per
   agent and the conflict check finds no conflict among them. *)
C3_SearchReturnsConflictFreePaths ==
    (/\ last.op = "search"
     /\ Computed(1) /\ HasAllPaths(nodes[1].paths, NumAgents)
     /\ ~HasConflict(nodes[1].paths, NumAgents))
    => /\ last.returned[1][2] # None
       /\ HasAllPaths(last.returned[1][2][1], NumAgents)
       /\ ~HasConflict(last.returned[1][2][1], NumAgents)

(* C4: when the joint plan has a vertex conflict, is_solution returns False
   with the conflict of the first timestep at which two distinct agents are at
   the same cell: the timestep returned is the smallest one with a conflict and
   the state returned is a cell two agents share at that timestep. *)
C4_FirstConflictReported ==
    (SuccessorsReturned /\ HasConflict(LastPaths, NumAgents)) =>
        /\ last.valid = FALSE
        /\ last.conflict # None
        /\ last.conflict[1][2] = FirstConflictTime(LastPaths, NumAgents)
        /\ \E i, j \in Agents(NumAgents) :
              /\ i # j
              /\ SameCellAt(LastPaths, i, j, last.conflict[1][2])
              /\ CellOf(LastPaths[i][1][last.conflict[1][2] + 1]) = CellOf(last.conflict[1][1])

\* what the code does report: a real conflict, the one found last
LastConflictReported ==
    (SuccessorsReturned /\ HasConflict(LastPaths, NumAgents)) =>
        /\ last.valid = FALSE
        /\ last.conflict # None
        /\ last.conflict[1][2] \in ConflictTimes(LastPaths, NumAgents)
        /\ \A u \in ConflictTimes(LastPaths, NumAgents) : u <= last.conflict[1][2]

(* C5: on paths produced by compute_cost, is_solution returns (True, None)
   exactly when no two distinct agents have path entries at the same index at
   the same (x, y); an agent whose path has ended takes no part at later
   timesteps. *)
C5_SolutionIffNoConflict ==
    SuccessorsReturned =>
        /\ last.raised = ""
        /\ (last.valid = TRUE /\ last.conflict = None) <=> ~HasConflict(LastPaths, NumAgents)

\* a plan accepted although an agent passes, later, the cell where another ended
C5_Witness ==
    /\ SuccessorsReturned
    /\ last.valid = TRUE /\ last.conflict = None
    /\ \E i, j \in Agents(NumAgents) : \E t \in 0 .. MaxG :
          /\ i # j
          /\ Len(LastPaths[i][1]) <= t /\ t < Len(LastPaths[j][1])
          /\ CellOf(LastPaths[j][1][t + 1]) = CellOf(LastPaths[i][1][Len(LastPaths[i][1])])

(* C6: on a joint plan with a conflict successors() returns exactly two
   children: (cell, t) is the conflict is_solution reports, a and b are two
   distinct agents whose paths are at that cell at index t, child 1 holds the
   parent's constraints plus (cell, t) for a and child 2 the parent's plus
   (cell, t) for b; the branch for fewer than two agents is not taken.  On a
   conflict-free plan successors() returns the empty list. *)
C6_TwoChildrenOneConstraintEach ==
    SuccessorsReturned =>
        IF HasConflict(LastPaths, NumAgents)
        THEN /\ last.raised = ""
             /\ last.branch = "two"
             /\ Len(last.children) = 2
             /\ Len(last.agents) >= 2
             /\ last.conflict = IsSolution(LastPaths, NumAgents).conflict
             /\ LET a == last.agents[1]
                    b == last.agents[2]
                    cell == CellOf(last.conflict[1][1])
                    t == last.conflict[1][2]
                IN /\ a # b
                   /\ SameCellAt(LastPaths, a, b, t)
                   /\ CellOf(LastPaths[a][1][t + 1]) = cell
                   /\ NodeConstraints(last.children[1])
                        = PlusConstraint(NodeConstraints(last.node), a, cell, t)
                   /\ NodeConstraints(last.children[2])
                        = PlusConstraint(NodeConstraints(last.node), b, cell, t)
        ELSE last.raised = "" /\ last.branch = "none" /\ last.children = <<>>

\* two children made from a node that already carries a constraint
C6_Witness ==
    /\ SuccessorsReturned
    /\ last.branch = "two"
    /\ nodes[last.node].parent # 0
    /\ \E i \in Agents(NumAgents) : DOMAIN NodeConstraints(last.children[1])[i] # {}
    /\ nodes[last.children[1]].parent = last.node
    /\ nodes[last.children[2]].parent = last.node

(* C7: for a node P on which compute_cost has run and a child C returned by
   P.successors(), after C.compute_cost() the child's total cost is at least
   P's total cost. *)
C7_ChildCostNotLower ==
    \A c \in 1 .. Len(nodes) :
        (nodes[c].parent # 0 /\ Computed(c) /\ Computed(nodes[c].parent))
            => nodes[c].cost >= nodes[nodes[c].parent].cost

\* the same for the children whose agents all got a path
ChildCostNotLowerWithPaths ==
    \A c \in 1 .. Len(nodes) :
        (/\ nodes[c].parent # 0 /\ Computed(c) /\ Computed(nodes[c].parent)
         /\ HasAllPaths(nodes[c].paths, NumAgents))
            => nodes[c].cost >= nodes[nodes[c].parent].cost

(* C8: constraints only grow along the constraint tree and each child works
   on a deep copy: no call changes the constraint mapping of a node that
   exists already (the parent's included), a new child forbids everything its
   parent forbids, and the constraint one child gets for its agent does not
   show in its sibling. *)
C8_ConstraintsOnlyGrow ==
    [][/\ \A n \in 1 .. Len(nodes) :
             ConstraintsValue(mem', nodes'[n].constraints) = NodeConstraints(n)
       /\ \A c \in (Len(nodes) + 1) .. Len(nodes') :
             /\ ConstraintsWithin(NodeConstraints(nodes'[c].parent),
                                  ConstraintsValue(mem', nodes'[c].constraints))
             /\ \A d \in (Len(nodes) + 1) .. Len(nodes') : \A i \in Agents(NumAgents) :
                   (/\ d # c
                    /\ ConstraintsValue(mem', nodes'[c].constraints)[i]
                          # NodeConstraints(nodes'[c].parent)[i])
                   => ConstraintsValue(mem', nodes'[d].constraints)[i]
                          = NodeConstraints(nodes'[c].parent)[i]]_vars

\* a grandchild of the root that forbids more than its parent, which forbids
\* more than the root
C8_Witness ==
    \E c \in 1 .. Len(nodes) :
        /\ nodes[c].parent # 0
        /\ nodes[nodes[c].parent].parent # 0
        /\ NodeConstraints(c) # NodeConstraints(nodes[c].parent)
        /\ NodeConstraints(nodes[c].parent) # NodeConstraints(nodes[nodes[c].parent].parent)
        /\ ConstraintsWithin(NodeConstraints(nodes[nodes[c].parent].parent), NodeConstraints(c))

(* C9: a child for which the constrained search of an agent returns NoPath
   is discarded: no node that successors() has returned and whose cost has been
   computed carries a missing path, nor a cost that includes the -1 marker. *)
C9_NoPathChildDiscarded ==
    \A c \in 1 .. Len(nodes) :
        (nodes[c].parent # 0 /\ Computed(c)) =>
            /\ \A i \in Agents(NumAgents) : nodes[c].paths[i] # None
            /\ nodes[c].cost >= 0

\* the number of unit-cost actions on a stored path: the g of its last state
PathCost(path) == path[Len(path)].g

\* the sum of the path costs of agents i .. k-1 of the joint plan ps
RECURSIVE SumPathCosts(_, _, _)
SumPathCosts(ps, i, k) ==
    IF i = k THEN 0 ELSE PathCost(ps[i][1]) + SumPathCosts(ps, i + 1, k)

(* C11: after compute_cost() on a newly constructed CBSState, or on a child
   just returned by successors(), the node holds one path for each agent in
   0..k-1 and its total cost is the sum over the agents of the number of
   unit-cost actions on the agent's path (the g of the path's last state). *)
C11_OnePathPerAgentCostIsSum ==
    \A n \in 1 .. Len(nodes) :
        Computed(n) =>
            /\ DOMAIN nodes[n].paths = Agents(NumAgents)
            /\ HasAllPaths(nodes[n].paths, NumAgents)
            /\ nodes[n].cost = SumPathCosts(nodes[n].paths, 0, NumAgents)

\* what does hold: an entry per agent, and the sum when each entry is a path;
\* the root, which has no constraints, always gets a path for each agent
CostIsSumWhenAllPaths ==
    \A n \in 1 .. Len(nodes) :
        Computed(n) =>
            /\ DOMAIN nodes[n].paths = Agents(NumAgents)
            /\ HasAllPaths(nodes[n].paths, NumAgents)
                 => nodes[n].cost = SumPathCosts(nodes[n].paths, 0, NumAgents)
            /\ nodes[n].parent = 0 => HasAllPaths(nodes[n].paths, NumAgents)

(* C12: every path AStar.search returns is a well-formed time-indexed chain:
   its first element is the start state, with g = 0 and no parent; its last
   element is at the goal's (x, y); the element at index i has g = i; each
   element after the first has the element before it as its parent and is one
   cardinal move or a wait away from it; the returned cost is len(path) - 1.
   The parent chain is followed through strictly decreasing g down to the
   start, so it has no cycle and the reconstruction ends. *)
C12_PathIsTimeIndexedChain ==
    ReturnedAPath =>
        /\ Len(ReturnedPath) >= 1
        /\ ReturnedPath[1] = start
        /\ ReturnedPath[1].g = 0
        /\ ReturnedPath[1].parent = None
        /\ IsGoal(ReturnedPath[Len(ReturnedPath)], goal)
        /\ \A i \in 1 .. Len(ReturnedPath) : ReturnedPath[i].g = i - 1
        /\ \A i \in 2 .. Len(ReturnedPath) :
              /\ ReturnedPath[i].parent = Some(ReturnedPath[i - 1])
              /\ Adjacent(CellOf(ReturnedPath[i - 1]), CellOf(ReturnedPath[i]))
        /\ ReturnedCost = Len(ReturnedPath) - 1

\* a returned path of at least three states that holds a wait and a move
C12_Witness ==
    /\ ReturnedAPath
    /\ Len(ReturnedPath) >= 3
    /\ \E i \in 2 .. Len(ReturnedPath) : CellOf(ReturnedPath[i]) = CellOf(ReturnedPath[i - 1])
    /\ \E i \in 2 .. Len(ReturnedPath) : CellOf(ReturnedPath[i]) # CellOf(ReturnedPath[i - 1])
    /\ CellOf(start) # CellOf(goal)

====
